---- MODULE Spec2Model ----
(***************************************************************************)
(* A model of gcode-pp.py: the SourceCode reader, the GCodePP.compile      *)
(* pipeline (open source, scan layer count, load and validate rules,       *)
(* rewrite lines into the output file, release the source) and the Watcher *)
(* polling thread that re-runs compile when the source's mtime advances.   *)
(*                                                                         *)
(* Texts are TLA+ strings; Python's str operations (index, split, replace, *)
(* int, str, line iteration) are operators computed the way Python         *)
(* computes them.                                                          *)
(***************************************************************************)
EXTENDS Integers, Sequences, FiniteSets, TLC

VARIABLES
    srcFile,        \* the source file on disk: [exists, text]
    mtime,          \* the source file's st_mtime
    rulesFile,      \* rule id -> the file rules[<id>].yml: [exists, rules]
    outFile,        \* rule id -> the file <stem>[<id>].gcode: [exists, text]
    watch,          \* GCodePP._watcher is set
    rule_ids,       \* GCodePP._rule_ids, the list shared with the Watcher
    args,           \* main(): the rule arguments not yet compiled
    stopped,        \* Watcher._stopped
    frame,          \* thread -> the locals of its GCodePP.compile call
    wpc,            \* Watcher.run: position in the loop
    started_time,   \* Watcher.run: local started_time (None or a time)
    modified_time,  \* Watcher.run: local modified_time
    it,             \* Watcher.run: index of the list iterator of line 61
    known,          \* history: _rule_ids as it was when the running cycle was triggered
    cycle,          \* history: the ids the callback was invoked for in the running cycle
    polls,          \* history: number of os.stat observations made so far
    firstCalls      \* history: ids in the order of their first compile call

vars == <<srcFile, mtime, rulesFile, outFile, watch, rule_ids, args, stopped,
          frame, wpc, started_time, modified_time, it, known, cycle, polls,
          firstCalls>>

envVars == <<srcFile, mtime, rulesFile>>
watcherVars == <<wpc, started_time, modified_time, it, known, cycle, polls>>

-----------------------------------------------------------------------------
(* Bounds of the model *)

MaxLines == 3       \* lines of a source document
MaxRules == 2       \* rules of a rules file
MaxTime == 1        \* modification times are 0..MaxTime

-----------------------------------------------------------------------------
(* Python values *)

None == <<>>
Some(v) == <<v>>
Val(o) == o[1]

NoExc == [type |-> "", msg |-> ""]
Exc(type, msg) == [type |-> type, msg |-> msg]

NoFile == [exists |-> FALSE, text |-> ""]
File(text) == [exists |-> TRUE, text |-> text]

NoRules == [exists |-> FALSE, rules |-> <<>>]
Rules(rs) == [exists |-> TRUE, rules |-> rs]

Rule(layer, code) == [layer |-> layer, code |-> code]

BoundedSeq(S, n) == UNION {[1..k -> S] : k \in 0..n}

Threads == {"main", "watcher"}
RuleIds == {"a", "b"}

\* A byte that the text stream's codec cannot decode (stands for e.g. 0xFF).
BadByte == "#"

-----------------------------------------------------------------------------
(* Python str operations *)

Digits == <<"0", "1", "2", "3", "4", "5", "6", "7", "8", "9">>
Whitespace == {" ", "\n", "\t"}

CharAt(s, i) == SubSeq(s, i, i)

\* The operators on strings are calls by value, as in Python: the one
\* element of {f(v) : v \in {s}} is f at the value v of the argument s, which
\* is evaluated once, before the body.

\* str.find: the 1-based position of the first occurrence of sub in s, 0 if none
Find(s, sub) ==
    CHOOSE p \in
        {LET n == Len(w)
             hits == {i \in 1..(Len(v) - n + 1) : SubSeq(v, i, i + n - 1) = w}
         IN IF hits = {} THEN 0 ELSE CHOOSE i \in hits : \A j \in hits : i <= j
         : v \in {s}, w \in {sub}} : TRUE

Contains(s, sub) == Find(s, sub) # 0

EndsWith(s, suffix) ==
    /\ Len(suffix) <= Len(s)
    /\ SubSeq(s, Len(s) - Len(suffix) + 1, Len(s)) = suffix

StartsWith(s, prefix) ==
    /\ Len(prefix) <= Len(s)
    /\ SubSeq(s, 1, Len(prefix)) = prefix

\* s.replace(old, new, 1)
Replace1(s, old, new) ==
    LET i == Find(s, old)
    IN IF i = 0 THEN s
       ELSE SubSeq(s, 1, i - 1) \o new \o SubSeq(s, i + Len(old), Len(s))

\* s.split(sep) for a one-character sep
RECURSIVE Split(_, _)
Split(s, sep) ==
    CHOOSE r \in
        {LET i == Find(v, sep)
         IN IF i = 0 THEN <<v>>
            ELSE <<SubSeq(v, 1, i - 1)>> \o Split(SubSeq(v, i + 1, Len(v)), sep)
         : v \in {s}} : TRUE

\* str(n) for an int n
RECURSIVE Str(_)
Str(n) ==
    IF n < 0 THEN "-" \o Str(0 - n)
    ELSE IF n < 10 THEN Digits[n + 1]
    ELSE Str(n \div 10) \o Digits[(n % 10) + 1]

RECURSIVE Strip(_)
Strip(s) ==
    CHOOSE r \in
        {IF v = "" THEN v
         ELSE IF CharAt(v, 1) \in Whitespace THEN Strip(SubSeq(v, 2, Len(v)))
         ELSE IF CharAt(v, Len(v)) \in Whitespace THEN Strip(SubSeq(v, 1, Len(v) - 1))
         ELSE v
         : v \in {s}} : TRUE

DigitVal(c) == (CHOOSE d \in 1..10 : Digits[d] = c) - 1
IsDigit(c) == \E d \in 1..10 : Digits[d] = c

RECURSIVE Decimal(_)
Decimal(s) ==
    CHOOSE r \in
        {IF v = "" THEN 0
         ELSE 10 * Decimal(SubSeq(v, 1, Len(v) - 1)) + DigitVal(CharAt(v, Len(v)))
         : v \in {s}} : TRUE

\* int(s): Some(value), or None where Python raises ValueError
ParseInt(s) ==
    LET t == Strip(s)
        signed == t # "" /\ CharAt(t, 1) \in {"-", "+"}
        body == IF signed THEN SubSeq(t, 2, Len(t)) ELSE t
    IN IF body = "" \/ \E i \in 1..Len(body) : ~IsDigit(CharAt(body, i))
       THEN None
       ELSE IF signed /\ CharAt(t, 1) = "-" THEN Some(0 - Decimal(body))
       ELSE Some(Decimal(body))

\* iterating a text stream: the lines of the text, each with its line end
RECURSIVE TextLines(_)
TextLines(text) ==
    CHOOSE r \in
        {LET i == Find(v, "\n")
         IN IF v = "" THEN <<>>
            ELSE IF i = 0 THEN <<v>>
            ELSE <<SubSeq(v, 1, i)>> \o TextLines(SubSeq(v, i + 1, Len(v)))
         : v \in {text}} : TRUE

RECURSIVE Join(_)
Join(ss) == IF ss = <<>> THEN "" ELSE Head(ss) \o Join(Tail(ss))

\* the text stream raises UnicodeDecodeError when read
Undecodable(text) == Contains(text, BadByte)

-----------------------------------------------------------------------------
(* SourceCode *)

\* the body of the scan loop for one line: the new value of _count_layers
ScanLine(count, code_line) ==
    IF ~Contains(code_line, ";LAYER_COUNT:") THEN count
    ELSE LET fields == Split(code_line, ":")
             n == ParseInt(fields[2])
         IN IF n = None THEN count ELSE n

RECURSIVE ScanFrom(_, _)
ScanFrom(count, lines) ==
    IF lines = <<>> THEN count
    ELSE ScanFrom(ScanLine(count, Head(lines)), Tail(lines))

\* SourceCode.__init__: _count_layers after the scan of the whole stream
CountLayers(text) == ScanFrom(None, TextLines(text))

\* line 27, stream.seek(0): the position of the stream (in lines read) once
\* the scan has read all of its lines
Rewound(lines) == 0

\* lines 29-31: the lines the iteration yields from a stream at position pos
LinesFrom(text, pos) == SubSeq(TextLines(text), pos + 1, Len(TextLines(text)))

-----------------------------------------------------------------------------
(* GCodePP.compile: the pure parts *)

\* RulesFilename that names the source file
RulesFilename_Source(rule_id) == "source.gcode"

\* line 106: 'rules[' + rule_id + '].yml'
RulesFilename(rule_id) == "rules[" \o rule_id \o "].yml"
CodeFilename == "source.gcode"

LayerComment(rule) == ";LAYER:" \o Str(rule.layer) \o "\n"

\* ApplyRule without the line end after the injected code
ApplyRule_NoLineEnd(code_line, rule) ==
    Replace1(code_line, LayerComment(rule), LayerComment(rule) \o rule.code)

\* one pass of the inner loop body for one rule
ApplyRule(code_line, rule) ==
    Replace1(code_line, LayerComment(rule),
             LayerComment(rule) \o rule.code \o "\n")

\* the inner loop "for rule in rules" on one line
RECURSIVE ApplyRules(_, _)
ApplyRules(code_line, rules) ==
    IF rules = <<>> THEN code_line
    ELSE ApplyRules(ApplyRule(code_line, Head(rules)), Tail(rules))

\* LayerTooBig with > for >=
LayerTooBig_Strict(rule, count) == rule.layer > Val(count)

\* rule['layer'] >= source_code.count_layers, for a count that is set
LayerTooBig(rule, count) == rule.layer >= Val(count)

\* Validate that checks the first rule only
Validate_FirstOnly(rules, count) ==
    IF rules = <<>> THEN NoExc
    ELSE IF count = None
         THEN Exc("TypeError", "'>=' not supported between 'int' and 'NoneType'")
    ELSE IF LayerTooBig(Head(rules), count)
         THEN Exc("ValueError", "The layer number [" \o Str(Head(rules).layer)
                                \o "] cannot be more than count layers")
    ELSE NoExc

\* the validation loop: the exception it ends with, NoExc if it passes
RECURSIVE Validate(_, _)
Validate(rules, count) ==
    IF rules = <<>> THEN NoExc
    ELSE IF count = None
         THEN Exc("TypeError", "'>=' not supported between 'int' and 'NoneType'")
    ELSE IF LayerTooBig(Head(rules), count)
         THEN Exc("ValueError", "The layer number [" \o Str(Head(rules).layer)
                                \o "] cannot be more than count layers")
    ELSE Validate(Tail(rules), count)

\* Truncate of a mode that keeps what an existing file holds ('r+', 'a+')
Truncate_Keep(file) == IF file.exists THEN file ELSE File("")

\* line 118, mode 'w+': the file is created, or truncated if it exists
Truncate(file) == File("")

\* what closing the output stream leaves in a file that held `old`: the
\* buffered text is written from offset 0 over what is there
Flush(old, buf) ==
    IF Len(buf) >= Len(old) THEN buf
    ELSE buf \o SubSeq(old, Len(buf) + 1, Len(old))

-----------------------------------------------------------------------------
(* GCodePP.compile: the frame of one call and its steps *)

IdleFrame ==
    [pc |-> "idle", rule_id |-> "", exc |-> NoExc,
     handle |-> "none",       \* the stream of open(self._code_filename)
     source_code |-> FALSE,   \* the local source_code is not None
     stream |-> "",           \* the text the open stream reads
     count_layers |-> None,   \* source_code.count_layers
     pos |-> 0,               \* the position of the stream, in lines read
     loaded |-> FALSE,        \* the local rules is bound
     rules |-> <<>>,
     out |-> "none",          \* the output stream
     written |-> <<>>]        \* the texts passed to out.write, in order

Running(t) == frame[t].pc \notin {"idle", "returned", "raised"}
Finished(t) == frame[t].pc \in {"returned", "raised"}

Set(t, f) == frame' = [frame EXCEPT ![t] = f]

\* Knows when the lookup never finds the id
Knows_Never(ids, rule_id) == FALSE

\* Knows that looks at the last element of the list only
Knows_OnlyLast(ids, rule_id) == ids # <<>> /\ ids[Len(ids)] = rule_id

\* line 97: self._rule_ids.index(rule_id) finds the id
Knows(ids, rule_id) == \E i \in 1..Len(ids) : ids[i] = rule_id

\* lines 93-97: entry of compile(rule_id) in thread t
Enter(t, rule_id) ==
    Set(t, [IdleFrame EXCEPT
              !.rule_id = rule_id,
              !.pc = IF watch /\ ~Knows(rule_ids, rule_id)
                     THEN "append" ELSE "open"])

NoteFirstCall(rule_id) ==
    firstCalls' = IF \E i \in 1..Len(firstCalls) : firstCalls[i] = rule_id
                  THEN firstCalls ELSE Append(firstCalls, rule_id)

\* lines 98-99: self._rule_ids.append(rule_id)
AppendRuleId(t) ==
    /\ frame[t].pc = "append"
    /\ rule_ids' = Append(rule_ids, frame[t].rule_id)
    /\ Set(t, [frame[t] EXCEPT !.pc = "open"])
    /\ UNCHANGED <<envVars, outFile, watch, args, stopped, watcherVars, firstCalls>>

\* line 103, open(self._code_filename)
OpenSource(t) ==
    /\ frame[t].pc = "open"
    /\ IF srcFile.exists
       THEN Set(t, [frame[t] EXCEPT !.pc = "scan", !.handle = "open",
                                    !.stream = srcFile.text])
       ELSE Set(t, [frame[t] EXCEPT !.pc = "finally",
                                    !.exc = Exc("FileNotFoundError", CodeFilename)])
    /\ UNCHANGED <<envVars, outFile, watch, rule_ids, args, stopped, watcherVars,
                   firstCalls>>

\* line 103, SourceCode(stream): lines 16-27, then the assignment to source_code
ScanSource(t) ==
    /\ frame[t].pc = "scan"
    /\ IF Undecodable(frame[t].stream)
       THEN Set(t, [frame[t] EXCEPT !.pc = "finally",
                                    !.exc = Exc("UnicodeDecodeError", CodeFilename)])
       ELSE Set(t, [frame[t] EXCEPT !.pc = "load", !.source_code = TRUE,
                                    !.count_layers = CountLayers(frame[t].stream),
                                    !.pos = Rewound(TextLines(frame[t].stream))])
    /\ UNCHANGED <<envVars, outFile, watch, rule_ids, args, stopped, watcherVars,
                   firstCalls>>

\* lines 106-107 and 111-112: load the rules file
LoadRules(t) ==
    /\ frame[t].pc = "load"
    /\ LET file == rulesFile[frame[t].rule_id]
           fn == RulesFilename(frame[t].rule_id)
       IN IF file.exists
          THEN Set(t, [frame[t] EXCEPT !.pc = "validate", !.loaded = TRUE,
                                       !.rules = file.rules])
          ELSE Set(t, [frame[t] EXCEPT
                         !.pc = "finally",
                         !.exc = Exc("NameError", "Rules with a filename \"" \o fn
                                                  \o "\" cannot be find")])
    /\ UNCHANGED <<envVars, outFile, watch, rule_ids, args, stopped, watcherVars,
                   firstCalls>>

\* lines 108-110: validate every rule against the layer count
ValidateRules(t) ==
    /\ frame[t].pc = "validate"
    /\ LET e == Validate(frame[t].rules, frame[t].count_layers)
       IN Set(t, [frame[t] EXCEPT !.exc = e,
                                  !.pc = IF e = NoExc THEN "output" ELSE "finally"])
    /\ UNCHANGED <<envVars, outFile, watch, rule_ids, args, stopped, watcherVars,
                   firstCalls>>

\* lines 114-118: open the output file with mode 'w+' (create or truncate);
\* the open can fail (ok = FALSE), leaving the file as it was
OpenOutput(t) ==
    /\ frame[t].pc = "output"
    /\ \E ok \in BOOLEAN :
        IF ok
        THEN /\ outFile' = [outFile EXCEPT ![frame[t].rule_id] = Truncate(@)]
             /\ Set(t, [frame[t] EXCEPT !.pc = "write", !.out = "open"])
        ELSE /\ outFile' = outFile
             /\ Set(t, [frame[t] EXCEPT !.pc = "finally",
                                        !.exc = Exc("OSError", "open")])
    /\ UNCHANGED <<envVars, watch, rule_ids, args, stopped, watcherVars, firstCalls>>

\* lines 119-127: the write loop over the lines of the stream (the texts go
\* to the output stream's buffer)
RECURSIVE WriteAll(_, _)
WriteAll(lines, rules) ==
    IF lines = <<>> THEN <<>>
    ELSE <<ApplyRules(Head(lines), rules)>> \o WriteAll(Tail(lines), rules)

WriteLines(t) ==
    /\ frame[t].pc = "write"
    /\ Set(t, [frame[t] EXCEPT
                 !.pc = "close",
                 !.pos = Len(TextLines(frame[t].stream)),
                 !.written = WriteAll(LinesFrom(frame[t].stream, frame[t].pos),
                                      frame[t].rules)])
    /\ UNCHANGED <<envVars, outFile, watch, rule_ids, args, stopped, watcherVars,
                   firstCalls>>

\* line 118, leaving the with block: the output stream is flushed and closed;
\* the flush can fail (ok = FALSE) with nothing of the buffer written
CloseOutput(t) ==
    /\ frame[t].pc = "close"
    /\ LET id == frame[t].rule_id
       IN \E ok \in BOOLEAN :
            IF ok
            THEN /\ outFile' = [outFile EXCEPT
                         ![id] = File(Flush(outFile[id].text, Join(frame[t].written)))]
                 /\ Set(t, [frame[t] EXCEPT !.pc = "finally", !.out = "closed"])
            ELSE /\ outFile' = outFile
                 /\ Set(t, [frame[t] EXCEPT !.pc = "finally", !.out = "closed",
                                            !.exc = Exc("OSError", "write")])
    /\ UNCHANGED <<envVars, watch, rule_ids, args, stopped, watcherVars, firstCalls>>

\* lines 129-131: the finally clause, then compile returns or raises
Finally(t) ==
    /\ frame[t].pc = "finally"
    /\ Set(t, [frame[t] EXCEPT
                 !.pc = IF frame[t].exc = NoExc THEN "returned" ELSE "raised",
                 !.handle = IF frame[t].source_code THEN "closed" ELSE @])
    /\ UNCHANGED <<envVars, outFile, watch, rule_ids, args, stopped, watcherVars,
                   firstCalls>>

-----------------------------------------------------------------------------
(* main *)

\* lines 142-143: the next iteration of "for rule in args.rules"
MainCompile ==
    /\ frame["main"].pc \in {"idle", "returned"}
    /\ args # <<>>
    /\ Enter("main", Head(args))
    /\ NoteFirstCall(Head(args))
    /\ args' = Tail(args)
    /\ UNCHANGED <<envVars, outFile, watch, rule_ids, stopped, watcherVars>>

-----------------------------------------------------------------------------
(* Watcher *)

\* NeedsUpdate when the baseline follows every observation
NeedsUpdate_Always(started, modified) == TRUE

\* line 59: started_time is None or started_time < modified_time
NeedsUpdate(started, modified) == started = None \/ Val(started) < modified

\* Triggered without the test for the first observation
Triggered_OnFirst(started, modified) == started = None \/ Val(started) < modified

\* line 60: started_time is not None and started_time < modified_time
Triggered(started, modified) == started # None /\ Val(started) < modified

\* HasNext of an iterator that stops one element early
HasNext_SkipLast(ids, i) == i < Len(ids)

\* NewBaseline that reads the file's time again at the end of the cycle
NewBaseline_Now(observed, now) == now

\* line 64: the new baseline is the time observed at line 58, not the
\* file's time now
NewBaseline(observed, now) == observed

\* line 61: what the list iterator at index i yields from the list as it is now
HasNext(ids, i) == i <= Len(ids)
NextRuleId(ids, i) == ids[i]

\* lines 54-56: the top of the loop
WatcherTop ==
    /\ wpc = "top"
    /\ wpc' = IF stopped THEN "done" ELSE "stat"
    /\ UNCHANGED <<envVars, outFile, watch, rule_ids, args, stopped, frame,
                   started_time, modified_time, it, known, cycle, polls, firstCalls>>

\* lines 58-60 and 64: observe the modification time; os.stat raises when the
\* file is gone, and the exception ends the thread
WatcherPoll ==
    /\ wpc = "stat"
    /\ IF ~srcFile.exists
       THEN /\ wpc' = "crashed"
            /\ UNCHANGED <<started_time, modified_time, it, known, cycle, polls>>
       ELSE /\ modified_time' = mtime
            /\ polls' = IF polls < 2 THEN polls + 1 ELSE polls
            /\ IF NeedsUpdate(started_time, mtime) /\ Triggered(started_time, mtime)
               THEN /\ wpc' = "iter"
                    /\ it' = 1
                    /\ known' = Some(rule_ids)
                    /\ cycle' = <<>>
                    /\ UNCHANGED started_time
               ELSE /\ wpc' = "sleep"
                    /\ started_time' = IF NeedsUpdate(started_time, mtime)
                                       THEN Some(NewBaseline(mtime, mtime))
                                       ELSE started_time
                    /\ UNCHANGED <<it, known, cycle>>
    /\ UNCHANGED <<envVars, outFile, watch, rule_ids, args, stopped, frame, firstCalls>>

\* lines 61-62: the next iteration of "for rule_id in self._rule_ids" calls
\* self._target(rule_id), which is GCodePP.compile
WatcherCall ==
    /\ wpc = "iter"
    /\ frame["watcher"].pc \in {"idle", "returned"}
    /\ HasNext(rule_ids, it)
    /\ Enter("watcher", NextRuleId(rule_ids, it))
    /\ NoteFirstCall(NextRuleId(rule_ids, it))
    /\ cycle' = Append(cycle, NextRuleId(rule_ids, it))
    /\ it' = it + 1
    /\ UNCHANGED <<envVars, outFile, watch, rule_ids, args, stopped, wpc,
                   started_time, modified_time, known, polls>>

\* line 64 after the for loop is exhausted: the baseline moves
WatcherCycleEnd ==
    /\ wpc = "iter"
    /\ frame["watcher"].pc \in {"idle", "returned"}
    /\ ~HasNext(rule_ids, it)
    /\ started_time' = Some(NewBaseline(modified_time, mtime))
    /\ wpc' = "sleep"
    /\ it' = 0
    /\ known' = None
    /\ cycle' = <<>>
    /\ UNCHANGED <<envVars, outFile, watch, rule_ids, args, stopped, frame,
                   modified_time, polls, firstCalls>>

\* WatcherRaise of a loop that catches the exception and goes on
WatcherRaise_Swallow ==
    /\ wpc = "iter"
    /\ frame["watcher"].pc = "raised"
    /\ frame' = [frame EXCEPT !["watcher"].pc = "returned"]
    /\ UNCHANGED <<envVars, outFile, watch, rule_ids, args, stopped, wpc,
                   started_time, modified_time, it, known, cycle, polls, firstCalls>>

\* line 62 raises: nothing in run catches it, the thread ends
WatcherRaise ==
    /\ wpc = "iter"
    /\ frame["watcher"].pc = "raised"
    /\ wpc' = "crashed"
    /\ UNCHANGED <<envVars, outFile, watch, rule_ids, args, stopped, frame,
                   started_time, modified_time, it, known, cycle, polls, firstCalls>>

\* line 66: time.sleep(1) is over
WatcherSleep ==
    /\ wpc = "sleep"
    /\ wpc' = "top"
    /\ UNCHANGED <<envVars, outFile, watch, rule_ids, args, stopped, frame,
                   started_time, modified_time, it, known, cycle, polls, firstCalls>>

\* lines 88-90 and 68-69: GCodePP.__exit__ on the main thread, Watcher.stop
Stop ==
    /\ watch
    /\ ~stopped
    /\ ~Running("main")
    /\ stopped' = TRUE
    /\ UNCHANGED <<envVars, outFile, watch, rule_ids, args, frame, watcherVars,
                   firstCalls>>

-----------------------------------------------------------------------------
(* The environment: the external producer of the source file *)

WatchSources == {File(";LAYER_COUNT:2\n;LAYER:1\n"), NoFile}

WatchRules == {Rules(<<Rule(1, "P")>>), NoRules}

\* the rule arguments of the command line: one or two rule ids
ArgLists == {<<x>> : x \in RuleIds} \cup {<<x, y>> : x, y \in RuleIds}

\* the source file is rewritten, removed or given another modification time
Touch ==
    /\ \E f \in WatchSources, m \in 0..MaxTime :
         /\ <<f, m>> # <<srcFile, mtime>>
         /\ srcFile' = f
         /\ mtime' = m
    /\ UNCHANGED <<rulesFile, outFile, watch, rule_ids, args, stopped, frame,
                   watcherVars, firstCalls>>

-----------------------------------------------------------------------------
(* Watch mode: the main thread, the watcher thread and the producer *)

Init ==
    /\ srcFile \in WatchSources
    /\ mtime \in 0..MaxTime
    /\ \E r \in WatchRules :
         rulesFile = [id \in RuleIds |-> IF id = "a" THEN Rules(<<Rule(1, "P")>>) ELSE r]
    /\ outFile = [id \in RuleIds |-> NoFile]
    /\ watch = TRUE
    /\ rule_ids = <<>>
    /\ args \in ArgLists
    /\ stopped = FALSE
    /\ frame = [t \in Threads |-> IdleFrame]
    /\ wpc = "top"
    /\ started_time = None
    /\ modified_time = 0
    /\ it = 0
    /\ known = None
    /\ cycle = <<>>
    /\ polls = 0
    /\ firstCalls = <<>>

Step(t) ==
    \/ AppendRuleId(t)
    \/ OpenSource(t)
    \/ ScanSource(t)
    \/ LoadRules(t)
    \/ ValidateRules(t)
    \/ OpenOutput(t)
    \/ WriteLines(t)
    \/ CloseOutput(t)
    \/ Finally(t)

Next ==
    \/ MainCompile
    \/ \E t \in Threads : Step(t)
    \/ WatcherTop
    \/ WatcherPoll
    \/ WatcherCall
    \/ WatcherCycleEnd
    \/ WatcherRaise
    \/ WatcherSleep
    \/ Stop
    \/ Touch

Spec == Init /\ [][Next]_vars

-----------------------------------------------------------------------------
(* One compile of one rule identifier, without a watcher *)

LinePool ==
    {";LAYER_COUNT:2\n", ";LAYER:1\n", "G1\n", "G1 ;LAYER:1\n", ";LAYER:1",
     BadByte \o "\n"}

RulePool ==
    {Rule(1, "P"), Rule(1, "Q\nR"), Rule(2, "P"), Rule(1, ";LAYER:0"),
     Rule(0, "S")}

SourcePool == {File(Join(ls)) : ls \in BoundedSeq(LinePool, MaxLines)}
RulesPool == {Rules(rs) : rs \in BoundedSeq(RulePool, MaxRules)}

InitCompile ==
    /\ srcFile \in SourcePool \cup {NoFile}
    /\ mtime = 0
    /\ \E r \in RulesPool \cup {NoRules} :
         rulesFile = [id \in RuleIds |-> IF id = "a" THEN r ELSE NoRules]
    /\ outFile = [id \in RuleIds |-> NoFile]
    /\ watch = FALSE
    /\ rule_ids = <<>>
    /\ args = <<"a">>
    /\ stopped = FALSE
    /\ frame = [t \in Threads |-> IdleFrame]
    /\ wpc = "off"
    /\ started_time = None
    /\ modified_time = 0
    /\ it = 0
    /\ known = None
    /\ cycle = <<>>
    /\ polls = 0
    /\ firstCalls = <<>>

NextCompile ==
    \/ MainCompile
    \/ OpenSource("main")
    \/ ScanSource("main")
    \/ LoadRules("main")
    \/ ValidateRules("main")
    \/ OpenOutput("main")
    \/ WriteLines("main")
    \/ CloseOutput("main")
    \/ Finally("main")

SpecCompile == InitCompile /\ [][NextCompile]_vars

-----------------------------------------------------------------------------
(* Claims about one compile (SpecCompile) *)

Succeeded(t) == frame[t].pc = "returned"
SourceLines(t) == TextLines(frame[t].stream)
Output(t) == outFile[frame[t].rule_id]
Block(rule) == rule.code \o "\n"

\* the line is the marker of the rule's layer (with or without its line end)
IsMarkerLine(code_line, rule) ==
    code_line \in {";LAYER:" \o Str(rule.layer), ";LAYER:" \o Str(rule.layer) \o "\n"}

\* the source has exactly one line carrying the ;LAYER_COUNT: sentinel
SingleCountMarker(t) ==
    Cardinality({k \in 1..Len(SourceLines(t)) :
                    Contains(SourceLines(t)[k], ";LAYER_COUNT:")}) = 1

\* the precondition of the injection claims: one count marker, all layers < N
InjectionCase(t) ==
    /\ Succeeded(t)
    /\ frame[t].count_layers # None
    /\ SingleCountMarker(t)
    /\ \A i \in 1..Len(frame[t].rules) :
          frame[t].rules[i].layer < Val(frame[t].count_layers)

\* the orderings of a finite set of rule indexes
RECURSIVE Orderings(_)
Orderings(S) ==
    IF S = {} THEN {<<>>}
    ELSE UNION {{<<i>> \o o : o \in Orderings(S \ {i})} : i \in S}

RECURSIVE Blocks(_, _)
Blocks(rules, order) ==
    IF order = <<>> THEN ""
    ELSE Block(rules[Head(order)]) \o Blocks(rules, Tail(order))

RECURSIVE SumLen(_, _)
SumLen(f, S) ==
    IF S = {} THEN 0
    ELSE LET x == CHOOSE y \in S : TRUE IN f[x] + SumLen(f, S \ {x})

\* C1 (as claimed): two rules r1 before r2 of one layer L and a single marker
\* line ;LAYER:L in the source: the output has, right after the marker line,
\* r1's block and then r2's block.
C1_BlocksInRuleOrder ==
    \A t \in Threads :
      Succeeded(t) =>
        LET rs == frame[t].rules
            lines == SourceLines(t)
        IN \A i, j \in 1..Len(rs) :
             ( /\ i < j
               /\ Len(rs) = 2
               /\ rs[i].layer = rs[j].layer
               /\ Cardinality({k \in 1..Len(lines) :
                                  lines[k] = LayerComment(rs[i])}) = 1 )
             => Contains(Output(t).text,
                         LayerComment(rs[i]) \o Block(rs[i]) \o Block(rs[j]))

\* C3 (as claimed): with one count marker and all layers < N, every source
\* line is written once, unchanged and in order, followed exactly when it is
\* the marker line of some rule by the blocks of the rules of that layer.
C3_AdditionsAfterMarkerLines ==
    \A t \in Threads :
      InjectionCase(t) =>
        LET rs == frame[t].rules
            lines == SourceLines(t)
            w == frame[t].written
        IN /\ Len(w) = Len(lines)
           /\ \A k \in 1..Len(lines) :
                LET hit == {i \in 1..Len(rs) : IsMarkerLine(lines[k], rs[i])}
                IN \E o \in Orderings(hit) : w[k] = lines[k] \o Blocks(rs, o)

\* no rule's code holds marker text
PlainCodes(rs) == \A i \in 1..Len(rs) : ~Contains(rs[i].code, ";LAYER:")

\* C3 (amended): with one count marker and all layers < N, every source line
\* is written once, unchanged and in order; text is added directly after a
\* source line exactly when the line ends with the text ;LAYER:L and a line
\* end for the layer L of some rule; and when no rule's code holds marker
\* text, the added text is the blocks of the rules of that layer, each once,
\* so the output has the input's line count plus the lines of those blocks.
C3_Injection ==
    \A t \in Threads :
      InjectionCase(t) =>
        LET rs == frame[t].rules
            lines == SourceLines(t)
            w == frame[t].written
            hit == [k \in 1..Len(lines) |->
                       {i \in 1..Len(rs) : EndsWith(lines[k], LayerComment(rs[i]))}]
            added == [k \in 1..Len(lines) |->
                       SumLen([i \in 1..Len(rs) |-> Len(TextLines(Block(rs[i])))],
                              hit[k])]
        IN /\ Len(w) = Len(lines)
           /\ Output(t) = File(Join(w))
           /\ \A k \in 1..Len(lines) :
                /\ StartsWith(w[k], lines[k])
                /\ (w[k] # lines[k]) <=> (hit[k] # {})
                /\ PlainCodes(rs) =>
                     \E o \in Orderings(hit[k]) : w[k] = lines[k] \o Blocks(rs, o)
           /\ PlainCodes(rs) =>
                Len(TextLines(Output(t).text))
                  = Len(lines) + SumLen(added, 1..Len(lines))

\* a compile that injected after a line that is more than the marker, with a
\* block of two lines
C3_Witness ==
    \E t \in Threads :
      /\ InjectionCase(t)
      /\ PlainCodes(frame[t].rules)
      /\ \E k \in 1..Len(SourceLines(t)) :
           /\ SourceLines(t)[k] = "G1 ;LAYER:1\n"
           /\ frame[t].written[k] = "G1 ;LAYER:1\nQ\nR\n"

ValidationDone(t) ==
    /\ frame[t].loaded
    /\ frame[t].pc \in {"output", "write", "close", "finally", "returned", "raised"}

\* C4: with a declared layer count N, compile ends validation with the
\* layer-out-of-range error exactly when some rule has layer >= N; when
\* every rule has layer <= N - 1 validation raises nothing.
C4_Boundary ==
    \A t \in Threads :
      (ValidationDone(t) /\ frame[t].count_layers # None) =>
        LET rs == frame[t].rules
            N == Val(frame[t].count_layers)
        IN /\ (frame[t].exc.type = "ValueError")
                <=> (\E i \in 1..Len(rs) : rs[i].layer >= N)
           /\ (\A i \in 1..Len(rs) : rs[i].layer <= N - 1)
                => frame[t].exc.type \notin {"ValueError", "TypeError", "NameError"}

\* a compile that failed on a rule with layer = N
C4_Witness ==
    \E t \in Threads :
      /\ frame[t].pc = "raised"
      /\ frame[t].exc.type = "ValueError"
      /\ frame[t].count_layers # None
      /\ \E i \in 1..Len(frame[t].rules) :
           frame[t].rules[i].layer = Val(frame[t].count_layers)
      /\ \A i \in 1..Len(frame[t].rules) :
           frame[t].rules[i].layer <= Val(frame[t].count_layers)

\* C5 (as claimed): a compile of a source without a layer count ends in a
\* failure and produces no output document, whatever the rule list.
C5_MissingCountFails ==
    \A t \in Threads :
      (Finished(t) /\ frame[t].source_code /\ frame[t].count_layers = None) =>
        /\ frame[t].pc = "raised"
        /\ ~Output(t).exists

\* C10 (as claimed): no compile ends with its source handle still open.
C10_SourceReleased ==
    \A t \in Threads : Finished(t) => frame[t].handle # "open"

-----------------------------------------------------------------------------
(* Claims about watch mode (Spec) *)

IsPrefix(p, q) == Len(p) <= Len(q) /\ SubSeq(q, 1, Len(p)) = p
NoDuplicates(q) == \A i, j \in 1..Len(q) : q[i] = q[j] => i = j
InList(q, x) == \E i \in 1..Len(q) : q[i] = x

\* a step of the watcher that invokes the recompilation callback
CallbackInvoked == \E id \in RuleIds : cycle' = Append(cycle, id)

\* C2 (as claimed): once stop has been requested, the watcher invokes the
\* callback for no further rule identifier.
C2_NoCallbackAfterStop == [][stopped => ~CallbackInvoked]_vars

\* C6: a triggered cycle ends by moving the baseline to the observed time,
\* which is above the old baseline, and only when the callback has been
\* invoked once for each identifier that was known when the cycle was
\* triggered, in the order the identifiers were first seen; until then the
\* baseline stays as it was.
C6_TriggeredCycle ==
    [][ /\ (wpc = "iter" /\ wpc' = "sleep") =>
              /\ known # None
              /\ IsPrefix(Val(known), cycle)
              /\ NoDuplicates(cycle)
              /\ IsPrefix(cycle, firstCalls)
              /\ Val(started_time) < modified_time
              /\ started_time' = Some(modified_time)
        /\ (wpc = "iter" /\ wpc' # "sleep") => started_time' = started_time
      ]_vars

\* a cycle that invoked the callback for two identifiers and is about to end
C6_Witness ==
    /\ wpc = "iter"
    /\ cycle = <<"a", "b">>
    /\ it = 3
    /\ frame["watcher"].pc = "returned"

\* C7: until the second observation of the modification time the callback is
\* not invoked: before the first there is no baseline, and the first only
\* makes the observed time the baseline.
C7_FirstPoll ==
    /\ polls = 0 =>
         /\ started_time = None
         /\ wpc \in {"top", "stat", "done", "crashed"}
         /\ frame["watcher"].pc = "idle"
         /\ cycle = <<>>
    /\ polls = 1 =>
         /\ started_time = Some(modified_time)
         /\ wpc \in {"sleep", "top", "stat", "done", "crashed"}
         /\ frame["watcher"].pc = "idle"
         /\ cycle = <<>>

\* the first poll is over, with two identifiers known and a nonzero time
C7_Witness ==
    /\ polls = 1
    /\ wpc = "sleep"
    /\ Len(rule_ids) = 2
    /\ modified_time > 0

\* C8: a poll after the first starts a cycle exactly when the observed time
\* is above the baseline; otherwise it invokes nothing and leaves the
\* baseline alone; the baseline never decreases.
C8_TriggerCondition ==
    [][ /\ (wpc = "stat" /\ wpc' \in {"iter", "sleep"} /\ started_time # None) =>
              /\ (wpc' = "iter") <=> (mtime > Val(started_time))
              /\ (mtime <= Val(started_time)) =>
                    /\ started_time' = started_time
                    /\ frame' = frame
                    /\ cycle' = cycle
        /\ started_time # None =>
              /\ started_time' # None
              /\ Val(started_time') >= Val(started_time)
      ]_vars

\* a later poll observed a time below the baseline and did not trigger
C8_Witness ==
    /\ polls = 2
    /\ wpc = "sleep"
    /\ started_time # None
    /\ modified_time < Val(started_time)

\* C9: in watch mode the shared list has no duplicates, lists the identifiers
\* in the order of their first compile call, and holds the identifier of
\* every compile call that is past its entry.
C9_RuleIdList ==
    watch =>
      /\ NoDuplicates(rule_ids)
      /\ IsPrefix(rule_ids, firstCalls)
      /\ Len(firstCalls) - Len(rule_ids)
           = Cardinality({t \in Threads : frame[t].pc = "append"})
      /\ \A t \in Threads :
           frame[t].pc \notin {"idle", "append"} => InList(rule_ids, frame[t].rule_id)

\* both threads are inside compile and the list holds two identifiers
C9_Witness ==
    /\ Running("main")
    /\ Running("watcher")
    /\ rule_ids = <<"a", "b">>
    /\ frame["main"].rule_id = "b"
    /\ frame["watcher"].rule_id = "a"

\* ---------------------------------------------------------------------------
\* Errors of a single compile
\* ---------------------------------------------------------------------------

\* the compile of thread t ended by raising an exception of this type
Failed(t, type) == frame[t].pc = "raised" /\ frame[t].exc.type = type

\* C11: a compile that finds the source (opened and scanned) but no rules
\* file for its rule id fails with the rules-not-found error, a NameError
\* whose message names rules[<id>].yml and not the source; the error for a
\* missing source is another one, a FileNotFoundError naming the source, and
\* neither is raised in the other's case: the rules-not-found error is raised
\* only after the source was opened, the source-not-found error only when
\* it was not.
C11_RulesNotFound ==
    \A t \in Threads :
        LET f == frame[t]
            fn == "rules[" \o f.rule_id \o "].yml"
        IN /\ (Finished(t) /\ f.source_code /\ ~rulesFile[f.rule_id].exists)
                => /\ Failed(t, "NameError")
                   /\ Contains(f.exc.msg, fn)
                   /\ ~Contains(f.exc.msg, "source.gcode")
           /\ Failed(t, "NameError")
                => /\ f.handle # "none"
                   /\ ~rulesFile[f.rule_id].exists
           /\ Failed(t, "FileNotFoundError")
                => /\ f.handle = "none"
                   /\ ~srcFile.exists
                   /\ ~Contains(f.exc.msg, fn)
           /\ (Finished(t) /\ ~srcFile.exists) => Failed(t, "FileNotFoundError")

C11_Witness ==
    /\ Failed("main", "NameError")
    /\ srcFile.exists
    /\ ~rulesFile["a"].exists
    /\ frame["main"].rule_id = "a"

\* ---------------------------------------------------------------------------
\* main() without --watch over two rule arguments, with output files that
\* may exist from an earlier run
\* ---------------------------------------------------------------------------

OldText == "OLD OLD OLD OLD OLD OLD OLD OLD OLD OLD OLD OLD\n"

MainSources ==
    {File(";LAYER_COUNT:2\n;LAYER:1\nG1\n"), File(";LAYER_COUNT:1\n;LAYER:1\n"),
     NoFile}

MainRules == {Rules(<<Rule(1, "P")>>), Rules(<<Rule(0, "S"), Rule(1, "P")>>), NoRules}

MainArgLists == {<<x, y>> : x, y \in RuleIds}

InitMain ==
    /\ srcFile \in MainSources
    /\ mtime = 0
    /\ rulesFile \in [RuleIds -> MainRules]
    /\ outFile \in [RuleIds -> {NoFile, File(OldText)}]
    /\ watch = FALSE
    /\ rule_ids = <<>>
    /\ args \in MainArgLists
    /\ stopped = FALSE
    /\ frame = [t \in Threads |-> IdleFrame]
    /\ wpc = "off"
    /\ started_time = None
    /\ modified_time = 0
    /\ it = 0
    /\ known = None
    /\ cycle = <<>>
    /\ polls = 0
    /\ firstCalls = <<>>

SpecMain == InitMain /\ [][NextCompile]_vars

\* every rule of the list passes the check of line 109 against the count
AllValid(rules, count) ==
    \A i \in 1..Len(rules) : count # None /\ rules[i].layer < Val(count)

\* C12: a compile that fails because a rule's layer is not below the layer
\* count (ValueError), or because its rules file is missing (NameError), has
\* never opened the output file, and the output file still holds what it held
\* before main started (nothing, or its old content); the output file of an
\* id changes only in a step of a compile of that id that loaded its rules
\* and found every rule valid.
C12_NoOutputOnFailure ==
    [][/\ \A t \in Threads :
            (frame'[t].pc = "raised" /\ frame'[t].exc.type \in {"ValueError", "NameError"})
                => /\ frame'[t].out = "none"
                   /\ frame'[t].written = <<>>
                   /\ outFile'[frame'[t].rule_id] = outFile[frame'[t].rule_id]
                   /\ outFile'[frame'[t].rule_id] \in {NoFile, File(OldText)}
       /\ \A id \in RuleIds :
            outFile'[id] # outFile[id]
                => \E t \in Threads :
                       /\ frame[t].rule_id = id
                       /\ frame[t].pc \in {"output", "close"}
                       /\ frame[t].loaded
                       /\ AllValid(frame[t].rules, frame[t].count_layers)
      ]_vars

C12_Witness ==
    /\ Failed("main", "ValueError")
    /\ frame["main"].rule_id = "a"
    /\ outFile["a"] = File(OldText)
    /\ frame["main"].count_layers = Some(1)

\* what compiling a source text under a list of rules produces
CompiledText(text, rules) == Join(WriteAll(TextLines(text), rules))

\* C13: no step of a compile changes the source file, and whenever a compile
\* of a rule id has returned, the output file of that id holds exactly the
\* text that the source and the rules determine, whatever the file held
\* before: the second of two compiles of one id over an unchanged source and
\* unchanged rules leaves the output the first one left.
C13_Idempotent ==
    [][/\ srcFile' = srcFile
       /\ rulesFile' = rulesFile
       /\ \A t \in Threads :
            frame'[t].pc = "returned"
                => outFile'[frame'[t].rule_id] =
                       File(CompiledText(srcFile'.text,
                                         rulesFile'[frame'[t].rule_id].rules))
      ]_vars

\* the second compile of rule id a has returned, leaving a text shorter
\* than the old content of an output file
C13_Witness ==
    /\ Succeeded("main")
    /\ frame["main"].rule_id = "a"
    /\ args = <<>>
    /\ firstCalls = <<"a">>
    /\ Len(OldText) > Len(outFile["a"].text)
    /\ outFile["a"].text # ""

\* lines 141-143: the loop of main has ended, by running out of arguments or
\* by the exception of a compile, which nothing in main catches
MainStopped ==
    \/ frame["main"].pc = "raised"
    \/ frame["main"].pc \in {"idle", "returned"} /\ args = <<>>

\* C14: an error in the compile of one rule id aborts that id only: the loop
\* of main goes on to the rule arguments that follow, so main stops only
\* when every rule argument has been handed to compile.
C14_ErrorIsolation == MainStopped => args = <<>>

\* ---------------------------------------------------------------------------
\* The two threads of watch mode
\* ---------------------------------------------------------------------------

\* C15: in watch mode two compile invocations for one rule id are never in
\* progress at once (the first compile of the main thread and a compile the
\* watcher retriggers), so one output file is never open for writing by
\* both threads.
C15_NoOverlap ==
    (Running("main") /\ Running("watcher"))
        => frame["main"].rule_id # frame["watcher"].rule_id

\* C17: when a callback raises during a cycle the watcher thread ends: from
\* then on it calls no further callback (the remaining ids of the cycle are
\* not recompiled), the baseline does not move, and once the thread has ended
\* nothing of its state changes any more, so no later modification triggers a
\* recompilation.
C17_WatcherCrash ==
    [][/\ frame["watcher"].pc = "raised"
            => /\ frame'["watcher"] = frame["watcher"]
               /\ started_time' = started_time
               /\ cycle' = cycle
               /\ it' = it
               /\ wpc' \in {wpc, "crashed"}
       /\ wpc = "crashed"
            => /\ UNCHANGED watcherVars
               /\ frame'["watcher"] = frame["watcher"]
      ]_vars

\* the watcher has ended on a callback that raised, with ids of the cycle
\* left and the baseline behind the time it observed
C17_Witness ==
    /\ wpc = "crashed"
    /\ frame["watcher"].pc = "raised"
    /\ HasNext(rule_ids, it)
    /\ Val(started_time) < modified_time

\* C18: the shared list only grows at its end, one id at a time; every
\* append is a step of the main thread's compile, in which the watcher does
\* nothing; a compile the watcher calls never gets to the append.
C18_AccessDiscipline ==
    [][/\ rule_ids' # rule_ids
            => /\ frame["main"].pc = "append"
               /\ rule_ids' = Append(rule_ids, frame["main"].rule_id)
               /\ frame'["watcher"] = frame["watcher"]
               /\ UNCHANGED watcherVars
       /\ frame'["watcher"].pc # "append"
      ]_vars

\* the watcher is inside a compile of the first of two ids of the list
C18_Witness ==
    /\ Running("watcher")
    /\ Len(rule_ids) = 2
    /\ frame["watcher"].rule_id = rule_ids[1]
    /\ rule_ids[2] # rule_ids[1]

\* ---------------------------------------------------------------------------
\* The scan of SourceCode over sources with several count lines
\* ---------------------------------------------------------------------------

ScanLinePool ==
    {";LAYER_COUNT:2\n", ";LAYER_COUNT:1\n", "T:;LAYER_COUNT:2\n", "G1\n"}

ScanSources == {File(Join(ls)) : ls \in BoundedSeq(ScanLinePool, MaxLines)}

InitScan ==
    /\ srcFile \in ScanSources
    /\ mtime = 0
    /\ \E r \in {Rules(<<>>), Rules(<<Rule(0, "S")>>)} :
         rulesFile = [id \in RuleIds |-> IF id = "a" THEN r ELSE NoRules]
    /\ outFile = [id \in RuleIds |-> NoFile]
    /\ watch = FALSE
    /\ rule_ids = <<>>
    /\ args = <<"a">>
    /\ stopped = FALSE
    /\ frame = [t \in Threads |-> IdleFrame]
    /\ wpc = "off"
    /\ started_time = None
    /\ modified_time = 0
    /\ it = 0
    /\ known = None
    /\ cycle = <<>>
    /\ polls = 0
    /\ firstCalls = <<>>

SpecScan == InitScan /\ [][NextCompile]_vars

\* the number N of a line that carries the sentinel ;LAYER_COUNT:<N>, that
\* is, the integer that follows the text ;LAYER_COUNT: up to the end of the
\* line; None for a line that carries none
SentinelNumber(code_line) ==
    LET i == Find(code_line, ";LAYER_COUNT:")
    IN IF i = 0 THEN None
       ELSE ParseInt(SubSeq(code_line, i + Len(";LAYER_COUNT:"), Len(code_line)))

\* the number on the last line of the sequence that carries the sentinel
LastSentinelNumber(lines) ==
    LET carrying == {k \in 1..Len(lines) : SentinelNumber(lines[k]) # None}
    IN IF carrying = {} THEN None
       ELSE SentinelNumber(lines[CHOOSE k \in carrying : \A j \in carrying : j <= k])

\* C19: once the SourceCode is constructed its layer count is the number on
\* the last line that carries the sentinel ;LAYER_COUNT:<N>, unset when no
\* line carries it, and the stream is rewound: the iteration that follows
\* yields every line of the source from the first.
C19_ScanResult ==
    \A t \in Threads :
        LET f == frame[t]
        IN /\ f.source_code
                => f.count_layers = LastSentinelNumber(TextLines(f.stream))
           /\ f.pc \in {"load", "validate", "output", "write"} => f.pos = 0
           /\ f.pc = "close" => Len(f.written) = Len(TextLines(f.stream))

\* C20: in every compile the source is opened and scanned to its end before
\* the rules file is opened and before any rule is validated, and every rule
\* is validated before the output file is opened; so a compile over a
\* missing source fails with the source-not-found error without having read
\* the rules or touched the output file.
C20_StepOrder ==
    \A t \in Threads :
        LET f == frame[t]
        IN /\ (f.loaded \/ f.pc = "validate")
                => f.source_code /\ f.handle # "none"
           /\ (f.out # "none" \/ f.pc = "output")
                => f.loaded /\ AllValid(f.rules, f.count_layers)
           /\ (f.pc # "idle" /\ f.out = "none") => outFile[f.rule_id] = NoFile
           /\ (Finished(t) /\ ~srcFile.exists)
                => /\ Failed(t, "FileNotFoundError")
                   /\ ~f.loaded
                   /\ f.rules = <<>>
                   /\ f.out = "none"

\* a compile over a missing source has failed although a rules file with
\* rules exists for its id
C20_Witness ==
    /\ Failed("main", "FileNotFoundError")
    /\ ~srcFile.exists
    /\ rulesFile[frame["main"].rule_id].exists
    /\ rulesFile[frame["main"].rule_id].rules # <<>>

\* ---------------------------------------------------------------------------
\* Watch mode once main has compiled its arguments, with a source that stays
\* in place and whose modification time only advances, and a watcher thread
\* that is scheduled fairly
\* ---------------------------------------------------------------------------

\* the modification times of the source: the baseline, the time that
\* triggers a cycle, and later ones
LiveTimes == 0..(MaxTime + 1)

\* the producer rewrites the source: its modification time advances
TouchForward ==
    /\ srcFile.exists
    /\ \E m \in LiveTimes : m > mtime /\ mtime' = m
    /\ UNCHANGED <<srcFile, rulesFile, outFile, watch, rule_ids, args, stopped,
                   frame, watcherVars, firstCalls>>

\* the frame of a compile of rule_id that has returned
ReturnedFrame(rule_id, text, rules) ==
    [pc |-> "returned", rule_id |-> rule_id, exc |-> NoExc, handle |-> "closed",
     source_code |-> TRUE, stream |-> text, count_layers |-> CountLayers(text),
     pos |-> Len(TextLines(text)), loaded |-> TRUE, rules |-> rules,
     out |-> "closed", written |-> WriteAll(TextLines(text), rules)]

\* the loop of main has compiled its one or two rule arguments, the watcher
\* thread has not yet run
InitLive ==
    \E ids \in {<<"a">>, <<"a", "b">>} :
        LET text == ";LAYER_COUNT:2\n;LAYER:1\n"
            rules == <<Rule(1, "P")>>
            done == {ids[i] : i \in 1..Len(ids)}
        IN /\ srcFile = File(text)
           /\ mtime = 0
           /\ rulesFile = [id \in RuleIds |-> Rules(rules)]
           /\ outFile = [id \in RuleIds |->
                            IF id \in done
                            THEN File(Join(WriteAll(TextLines(text), rules)))
                            ELSE NoFile]
           /\ watch = TRUE
           /\ rule_ids = ids
           /\ args = <<>>
           /\ stopped = FALSE
           /\ frame = [t \in Threads |->
                          IF t = "main"
                          THEN ReturnedFrame(ids[Len(ids)], text, rules)
                          ELSE IdleFrame]
           /\ wpc = "top"
           /\ started_time = None
           /\ modified_time = 0
           /\ it = 0
           /\ known = None
           /\ cycle = <<>>
           /\ polls = 0
           /\ firstCalls = ids

\* a step of the watcher thread: of its loop, or of the compile it called
\* (which is a compile of an id of the list, and so without the append)
WatcherStep ==
    \/ WatcherTop
    \/ WatcherPoll
    \/ WatcherCall
    \/ WatcherCycleEnd
    \/ WatcherRaise
    \/ WatcherSleep
    \/ OpenSource("watcher")
    \/ ScanSource("watcher")
    \/ LoadRules("watcher")
    \/ ValidateRules("watcher")
    \/ OpenOutput("watcher")
    \/ WriteLines("watcher")
    \/ CloseOutput("watcher")
    \/ Finally("watcher")

NextLive ==
    \/ WatcherStep
    \/ Stop
    \/ TouchForward

\* the watcher is a thread of its own (line 45), which the scheduler runs
\* whenever it can take a step; time.sleep(1) returns
SpecLive == InitLive /\ [][NextLive]_vars /\ WF_vars(WatcherStep)

\* the watcher has been stopped or has ended, or the callback it called raised
WatcherOut ==
    \/ stopped
    \/ wpc \in {"done", "crashed"}
    \/ frame["watcher"].pc = "raised"

\* C16: no change is lost. Whenever the modification time has advanced to m
\* past an established baseline, also during a Triggered cycle that is still
\* recompiling, and rule id x is known, then eventually a cycle that observed
\* a time of m or later recompiles x, unless the watcher is stopped or ends
\* or a callback raises.
C16_NoLostChange ==
    \A m \in LiveTimes : \A x \in RuleIds :
        (/\ mtime = m
         /\ started_time # None
         /\ Val(started_time) < m
         /\ InList(rule_ids, x))
            ~> (\/ wpc = "iter" /\ modified_time >= m /\ InList(cycle, x)
                \/ WatcherOut)

\* a cycle that observed time 2 has recompiled both known ids, after the
\* cycle that observed time 1 and moved the baseline there
C16_Witness ==
    /\ wpc = "iter"
    /\ started_time = Some(1)
    /\ modified_time = 2
    /\ Len(rule_ids) = 2
    /\ cycle = rule_ids
    /\ frame["watcher"].pc = "returned"
    /\ ~WatcherOut

====
